---- MODULE Spec2Model ----
(***************************************************************************)
(* COLO checkpoint protocol of migration/colo.c: the command channel       *)
(* (colo_put_cmd, colo_put_cmd_value, colo_get_cmd, colo_get_check_cmd),   *)
(* the primary's checkpoint transaction and loop, and the secondary's      *)
(* responder thread, run against each other over two byte channels.        *)
(***************************************************************************)
EXTENDS Integers, Sequences, FiniteSets, TLC

(* ---------------- COLOMessage ordinals ---------------- *)
COLO_MESSAGE_CHECKPOINT_READY == 0
COLO_MESSAGE_CHECKPOINT_REQUEST == 1
COLO_MESSAGE_CHECKPOINT_REPLY == 2
COLO_MESSAGE_VMSTATE_SEND == 3
COLO_MESSAGE_VMSTATE_SIZE == 4
COLO_MESSAGE_VMSTATE_RECEIVED == 5
COLO_MESSAGE_VMSTATE_LOADED == 6
COLO_MESSAGE__MAX == 7

(* errno reported by a failed transport operation *)
EIO == 5

(* ---------------- bounds ---------------- *)
\* longest snapshot, in bytes, the serializer writes in one cycle
MaxSnapLen == 2
\* largest ordinal offered to the command channel beyond COLO_MESSAGE__MAX
MaxExtraCmd == 2

\* commands a scripted peer sends in protocol order before it deviates or closes
MaxScript == 7

\* i-th byte of the snapshot of n bytes: snapshots of different lengths differ
\* in every byte
SnapByte(n, i) == (85 * n + i) % 256

\* the blobs the serializer may write
Snapshots == {[i \in 1..n |-> SnapByte(n, i)] : n \in 1..MaxSnapLen}

(* ---------------- Error objects ---------------- *)
\* Error *local_err = NULL
NoErr == [kind |-> "none", unexpected |-> -1, expected |-> -1]

\* error_setg_errno(errp, -ret, ...): a transport failure
TransportErr == [kind |-> "transport", unexpected |-> -1, expected |-> -1]

\* error_setg(errp, "%s: Invalid cmd", __func__)
InvalidErr == [kind |-> "invalid", unexpected |-> -1, expected |-> -1]

\* error_setg(errp, "Got unknown COLO command: %d", cmd)
UnknownErr(cmd) == [kind |-> "unknown", unexpected |-> cmd, expected |-> -1]

\* error_setg(errp, "Unexpected COLO command %d, expected %d", a, b):
\* the first %d is the command reported as unexpected, the second the one
\* reported as expected
MismatchErr(a, b) == [kind |-> "mismatch", unexpected |-> a, expected |-> b]

(* ---------------- wire encoding ---------------- *)
RECURSIVE Shr8(_, _)
Shr8(v, k) == IF k = 0 THEN v ELSE Shr8(v \div 256, k - 1)

\* big-endian encoding of an unsigned value in n bytes
BeBytes(v, n) == [i \in 1..n |-> Shr8(v, n - i) % 256]

RECURSIVE BeValue(_)
\* value of a big-endian byte string
BeValue(b) == IF Len(b) = 0 THEN 0
              ELSE BeValue(SubSeq(b, 1, Len(b) - 1)) * 256 + b[Len(b)]

Drop(s, n) == SubSeq(s, n + 1, Len(s))

\* a uint64_t as its two 32-bit halves, the form in which it is put on the wire
\* (v >> 32, then the low word); for n below 2^31
U64(n) == [hi |-> Shr8(n, 4), lo |-> n - Shr8(n, 4) * 65536 * 65536]

NoValue == [hi |-> -1, lo |-> -1]

(* ---------------- QEMUFile ---------------- *)
\* A QEMUFile end point: data are the bytes in flight on the channel it is
\* attached to, last_error is the sticky error of this end point (0 or
\* a negative errno).
File(d, e) == [data |-> d, last_error |-> e]

\* qemu_put_be32 + qemu_fflush; fault: the transport fails on this write.
\* Nothing is written once last_error is set.
qemu_put_be32(f, v, fault) ==
    IF f.last_error # 0 THEN f
    ELSE IF fault THEN [f EXCEPT !.last_error = -EIO]
    ELSE [f EXCEPT !.data = @ \o BeBytes(v, 4)]

\* qemu_put_be64 + qemu_fflush
qemu_put_be64(f, v, fault) ==
    IF f.last_error # 0 THEN f
    ELSE IF fault THEN [f EXCEPT !.last_error = -EIO]
    ELSE [f EXCEPT !.data = @ \o BeBytes(v.hi, 4) \o BeBytes(v.lo, 4)]

\* qsb_put_buffer + qemu_fflush: raw bytes
qemu_put_buffer(f, bytes, fault) ==
    IF f.last_error # 0 THEN f
    ELSE IF fault THEN [f EXCEPT !.last_error = -EIO]
    ELSE [f EXCEPT !.data = @ \o bytes]

\* qemu_get_be32: reads four bytes; on a transport failure or end of stream
\* the error is set and the value read is 0
qemu_get_be32(f, fault) ==
    IF f.last_error # 0 THEN [f |-> f, v |-> 0]
    ELSE IF fault \/ Len(f.data) < 4
         THEN [f |-> [f EXCEPT !.last_error = -EIO], v |-> 0]
    ELSE [f |-> [f EXCEPT !.data = Drop(@, 4)],
          v |-> BeValue(SubSeq(f.data, 1, 4))]

\* qemu_get_be64
qemu_get_be64(f, fault) ==
    IF f.last_error # 0 THEN [f |-> f, v |-> U64(0)]
    ELSE IF fault \/ Len(f.data) < 8
         THEN [f |-> [f EXCEPT !.last_error = -EIO], v |-> U64(0)]
    ELSE [f |-> [f EXCEPT !.data = Drop(@, 8)],
          v |-> [hi |-> BeValue(SubSeq(f.data, 1, 4)),
                 lo |-> BeValue(SubSeq(f.data, 5, 8))]]

\* qemu_file_get_error
qemu_file_get_error(f) == f.last_error

(* ---------------- command channel ---------------- *)
\* variant: the range check lets COLO_MESSAGE__MAX itself through
colo_put_cmd_OffByOne(f, cmd, fault) ==
    IF cmd > COLO_MESSAGE__MAX
    THEN [f |-> f, err |-> InvalidErr]
    ELSE LET f1 == qemu_put_be32(f, cmd, fault)
         IN [f |-> f1,
             err |-> IF qemu_file_get_error(f1) < 0 THEN TransportErr ELSE NoErr]

colo_put_cmd(f, cmd, fault) ==
    IF cmd >= COLO_MESSAGE__MAX
    THEN [f |-> f, err |-> InvalidErr]
    ELSE LET f1 == qemu_put_be32(f, cmd, fault)
         IN [f |-> f1,
             err |-> IF qemu_file_get_error(f1) < 0 THEN TransportErr ELSE NoErr]

\* second half of colo_put_cmd_value: qemu_put_be64(f, value); qemu_fflush(f);
\* the error check on the file
colo_put_value(f, value, fault) ==
    LET f2 == qemu_put_be64(f, value, fault)
    IN [f |-> f2,
        err |-> IF qemu_file_get_error(f2) < 0 THEN TransportErr ELSE NoErr]

\* variant: the value is written before the command
colo_put_cmd_value_ValueFirst(f, cmd, value, fault1, fault2) ==
    LET f1 == qemu_put_be64(f, value, fault2)
        r == colo_put_cmd(f1, cmd, fault1)
    IN r

colo_put_cmd_value(f, cmd, value, fault1, fault2) ==
    LET r == colo_put_cmd(f, cmd, fault1)
    IN IF r.err # NoErr THEN r
       ELSE colo_put_value(r.f, value, fault2)

colo_get_cmd(f, fault) ==
    LET r == qemu_get_be32(f, fault)
    IN IF qemu_file_get_error(r.f) < 0
       THEN [f |-> r.f, cmd |-> r.v, err |-> TransportErr]
       ELSE IF r.v >= COLO_MESSAGE__MAX
       THEN [f |-> r.f, cmd |-> r.v, err |-> InvalidErr]
       ELSE [f |-> r.f, cmd |-> r.v, err |-> NoErr]

colo_get_check_cmd(f, expect_cmd, fault) ==
    LET r == colo_get_cmd(f, fault)
    IN IF r.err # NoErr THEN [f |-> r.f, err |-> r.err]
       ELSE IF r.cmd # expect_cmd
       THEN [f |-> r.f, err |-> MismatchErr(expect_cmd, r.cmd)]
       ELSE [f |-> r.f, err |-> NoErr]

\* colo_wait_handle_cmd: request is left as it was when colo_get_cmd fails
\* variant: the default branch sets no error
colo_wait_handle_cmd_NoError(f, request, fault) ==
    LET r == colo_get_cmd(f, fault)
    IN IF r.err # NoErr
       THEN [f |-> r.f, request |-> request, err |-> r.err, cmd |-> r.cmd]
       ELSE IF r.cmd = COLO_MESSAGE_CHECKPOINT_REQUEST
       THEN [f |-> r.f, request |-> 1, err |-> NoErr, cmd |-> r.cmd]
       ELSE [f |-> r.f, request |-> 0, err |-> NoErr, cmd |-> r.cmd]

colo_wait_handle_cmd(f, request, fault) ==
    LET r == colo_get_cmd(f, fault)
    IN IF r.err # NoErr
       THEN [f |-> r.f, request |-> request, err |-> r.err, cmd |-> r.cmd]
       ELSE IF r.cmd = COLO_MESSAGE_CHECKPOINT_REQUEST
       THEN [f |-> r.f, request |-> 1, err |-> NoErr, cmd |-> r.cmd]
       ELSE [f |-> r.f, request |-> 0, err |-> UnknownErr(r.cmd), cmd |-> r.cmd]

\* migrate_set_state(&state, old, new): compare and swap
migrate_set_state(cur, old, new) == IF cur = old THEN new ELSE cur

(* ---------------- QEMUSizedBuffer ---------------- *)
\* qsb_set_length(qsb, n): n is at most the current length
qsb_set_length(qsb, n) == SubSeq(qsb, 1, n)

\* the buffer sink writes at position pos and extends the used length
qsb_write_at(qsb, bytes, pos) ==
    SubSeq(qsb, 1, pos) \o bytes \o Drop(qsb, pos + Len(bytes))

qsb_get_length(qsb) == Len(qsb)


(* ======================= state ======================= *)
VARIABLES
    ppc,            \* primary: position in migrate_start_colo_process and callees
    sState,         \* s->state
    fromDst,        \* s->rp_state.from_dst_file: "null", "open" or "closed"
    toDstErr,       \* last_error of s->to_dst_file
    fromDstErr,     \* last_error of s->rp_state.from_dst_file
    buffer,         \* colo buffer: "null", "live" or "freed"
    bufData,        \* bytes held by the colo buffer (its used length is Len)
    trans,          \* QEMUFile *trans: "null", "open" or "closed"
    transErr,       \* last_error of trans
    local_err_pri,  \* local_err of colo_process_checkpoint
    local_err_txn,  \* local_err of colo_do_checkpoint_transaction
    ret,            \* ret of colo_do_checkpoint_transaction
    size,           \* size of colo_do_checkpoint_transaction
    vmRunning,      \* primary guest is running
    pLock,          \* the primary's thread holds the iothread lock
    spc,            \* secondary: position in colo_process_incoming_thread
    misState,       \* mis->state
    toSrc,          \* mis->to_src_file: "null", "open" or "closed"
    fromSrcErr,     \* last_error of mis->from_src_file
    toSrcErr,       \* last_error of mis->to_src_file
    ramCache,       \* "none", "init" or "released"
    local_err_sec,  \* local_err of colo_process_incoming_thread
    request,        \* int request of the responder loop: "unset", 0 or 1
    chanToDst,      \* bytes in flight primary -> secondary
    chanToSrc,      \* bytes in flight secondary -> primary
    h,              \* observation record (counters and logs, read by no action guard)
    cpc,            \* command-channel harness: position
    cfile,          \* command-channel harness: the QEMUFile under test
    carg,           \* command-channel harness: arguments of the call
    cres            \* command-channel harness: result of the call

priVars == <<ppc, sState, fromDst, toDstErr, fromDstErr, buffer, bufData, trans,
             transErr, local_err_pri, local_err_txn, ret, size, vmRunning, pLock>>
secVars == <<spc, misState, toSrc, fromSrcErr, toSrcErr, ramCache, local_err_sec,
             request>>
chanVars == <<chanToDst, chanToSrc>>
cmdVars == <<cpc, cfile, carg, cres>>
vars == <<priVars, secVars, chanVars, h, cmdVars>>

\* observation record at phase start
H0 == [txns |-> 0, reqSent |-> 0, loadedMatched |-> 0,
       failStep |-> "none", anyFail |-> FALSE, sentAfterFail |-> FALSE,
       txnAfterFail |-> FALSE, tlog |-> <<>>, bufAtStart |-> <<>>,
       snap |-> <<>>, sizeSent |-> NoValue, payloadSent |-> <<>>,
       bufCreates |-> 0, bufFrees |-> 0, rpOpens |-> 0, rpCloses |-> 0,
       badUse |-> FALSE, lockedOps |-> {}, lockedIO |-> FALSE,
       secInits |-> 0, secReleases |-> 0, secOpens |-> 0, secCloses |-> 0,
       secExits |-> 0, secLog |-> <<>>, waitCmds |-> <<>>, secIters |-> 0,
       assertFailed |-> FALSE, readySent |-> FALSE]

\* an event of the current transaction, with the guest's run state at that time
Ev(op) == [op |-> op, run |-> vmRunning]

priInit ==
    /\ ppc = "start" /\ sState = "ACTIVE" /\ fromDst = "null"
    /\ toDstErr = 0 /\ fromDstErr = 0
    /\ buffer = "null" /\ bufData = <<>> /\ trans = "null" /\ transErr = 0
    /\ local_err_pri = NoErr /\ local_err_txn = NoErr /\ ret = -1 /\ size = 0
    /\ vmRunning = FALSE /\ pLock = TRUE

secInit ==
    /\ spc = "s_start" /\ misState = "ACTIVE" /\ toSrc = "null"
    /\ fromSrcErr = 0 /\ toSrcErr = 0 /\ ramCache = "none"
    /\ local_err_sec = NoErr /\ request = "unset"

\* no process of the phase runs
priIdle ==
    /\ ppc = "idle" /\ sState = "ACTIVE" /\ fromDst = "null"
    /\ toDstErr = 0 /\ fromDstErr = 0
    /\ buffer = "null" /\ bufData = <<>> /\ trans = "null" /\ transErr = 0
    /\ local_err_pri = NoErr /\ local_err_txn = NoErr /\ ret = -1 /\ size = 0
    /\ vmRunning = FALSE /\ pLock = TRUE

secIdle ==
    /\ spc = "idle" /\ misState = "ACTIVE" /\ toSrc = "null"
    /\ fromSrcErr = 0 /\ toSrcErr = 0 /\ ramCache = "none"
    /\ local_err_sec = NoErr /\ request = "unset"

cmdIdle ==
    /\ cpc = "idle" /\ cfile = File(<<>>, 0)
    /\ carg = [op |-> "none", cmd |-> 0, value |-> NoValue]
    /\ cres = [err |-> NoErr, cmd |-> -1, value |-> NoValue, sent |-> <<>>,
               before |-> File(<<>>, 0)]

\* primary and secondary at the entry of the phase, empty channels
Init ==
    /\ priInit /\ secInit /\ cmdIdle
    /\ chanToDst = <<>> /\ chanToSrc = <<>>
    /\ h = H0

\* a blocking read returns when four bytes are there, the end point is in
\* error, the transport fails, or the peer has closed its end
RecvReady(data, err, fault, peerGone) ==
    err # 0 \/ fault \/ Len(data) >= 4 \/ peerGone

\* the step named step of the current transaction failed
Fail(hh, step) == [hh EXCEPT !.failStep = step, !.anyFail = TRUE]

\* bytes were written to the outbound channel
Sent(hh, f0, f1) ==
    IF f1.data # f0.data /\ hh.anyFail THEN [hh EXCEPT !.sentAfterFail = TRUE]
    ELSE hh

(* ======================= primary ======================= *)
\* migrate_start_colo_process, up to the call of colo_process_checkpoint
\* variant: the iothread lock is kept over the whole phase
PriStart_NoUnlock ==
    /\ ppc = "start"
    /\ pLock' = pLock
    /\ sState' = migrate_set_state(sState, "ACTIVE", "COLO")
    /\ ppc' = "open_rp"
    /\ UNCHANGED <<fromDst, toDstErr, fromDstErr, buffer, bufData, trans, transErr,
                   local_err_pri, local_err_txn, ret, size, vmRunning>>
    /\ UNCHANGED <<secVars, chanVars, h, cmdVars>>

\* qemu_mutex_unlock_iothread(); migrate_set_state(ACTIVE -> COLO)
PriStart ==
    /\ ppc = "start"
    /\ pLock' = FALSE
    /\ sState' = migrate_set_state(sState, "ACTIVE", "COLO")
    /\ ppc' = "open_rp"
    /\ UNCHANGED <<fromDst, toDstErr, fromDstErr, buffer, bufData, trans, transErr,
                   local_err_pri, local_err_txn, ret, size, vmRunning>>
    /\ UNCHANGED <<secVars, chanVars, h, cmdVars>>

\* qemu_file_get_return_path(s->to_dst_file)
PriOpenRp ==
    /\ ppc = "open_rp"
    /\ \E ok \in BOOLEAN :
         /\ fromDst' = IF ok THEN "open" ELSE "null"
         /\ ppc' = IF ok THEN "wait_ready" ELSE "out"
         /\ h' = IF ok THEN [h EXCEPT !.rpOpens = @ + 1] ELSE h
    /\ UNCHANGED <<sState, toDstErr, fromDstErr, buffer, bufData, trans, transErr,
                   local_err_pri, local_err_txn, ret, size, vmRunning, pLock>>
    /\ UNCHANGED <<secVars, chanVars, cmdVars>>

\* colo_get_check_cmd(from_dst_file, COLO_MESSAGE_CHECKPOINT_READY)
PriWaitReady ==
    /\ ppc = "wait_ready"
    /\ \E fault \in BOOLEAN :
         /\ RecvReady(chanToSrc, fromDstErr, fault, toSrc = "closed")
         /\ LET r == colo_get_check_cmd(File(chanToSrc, fromDstErr),
                                        COLO_MESSAGE_CHECKPOINT_READY, fault)
            IN /\ chanToSrc' = r.f.data
               /\ fromDstErr' = r.f.last_error
               /\ local_err_pri' = r.err
               /\ ppc' = IF r.err # NoErr THEN "out" ELSE "alloc"
               /\ h' = [h EXCEPT !.lockedIO = @ \/ pLock,
                                 !.badUse = @ \/ fromDst # "open"]
    /\ UNCHANGED <<sState, fromDst, toDstErr, buffer, bufData, trans, transErr,
                   local_err_txn, ret, size, vmRunning, pLock>>
    /\ UNCHANGED <<secVars, chanToDst, cmdVars>>

\* variant: the allocation failure returns without the cleanup at out
PriAlloc_Leak ==
    /\ ppc = "alloc"
    /\ \E ok \in BOOLEAN :
         /\ buffer' = IF ok THEN "live" ELSE "null"
         /\ ppc' = IF ok THEN "first_start" ELSE "relock"
         /\ h' = IF ok THEN [h EXCEPT !.bufCreates = @ + 1] ELSE h
    /\ bufData' = <<>>
    /\ UNCHANGED <<sState, fromDst, toDstErr, fromDstErr, trans, transErr,
                   local_err_pri, local_err_txn, ret, size, vmRunning, pLock>>
    /\ UNCHANGED <<secVars, chanVars, cmdVars>>

\* buffer = qsb_create(NULL, COLO_BUFFER_BASE_SIZE)
PriAlloc ==
    /\ ppc = "alloc"
    /\ \E ok \in BOOLEAN :
         /\ buffer' = IF ok THEN "live" ELSE "null"
         /\ ppc' = IF ok THEN "first_start" ELSE "out"
         /\ h' = IF ok THEN [h EXCEPT !.bufCreates = @ + 1] ELSE h
    /\ bufData' = <<>>
    /\ UNCHANGED <<sState, fromDst, toDstErr, fromDstErr, trans, transErr,
                   local_err_pri, local_err_txn, ret, size, vmRunning, pLock>>
    /\ UNCHANGED <<secVars, chanVars, cmdVars>>

\* lock; vm_start(); unlock  (before the loop)
PriFirstStart ==
    /\ ppc = "first_start"
    /\ vmRunning' = TRUE
    /\ ppc' = "loop"
    /\ h' = [h EXCEPT !.lockedOps = @ \cup {"vm_start"}]
    /\ UNCHANGED <<sState, fromDst, toDstErr, fromDstErr, buffer, bufData, trans,
                   transErr, local_err_pri, local_err_txn, ret, size, pLock>>
    /\ UNCHANGED <<secVars, chanVars, cmdVars>>

\* while (s->state == MIGRATION_STATUS_COLO): enter the transaction or leave
PriLoop ==
    /\ ppc = "loop"
    /\ IF sState = "COLO"
       THEN /\ ppc' = "t_request"
            /\ trans' = "null" /\ transErr' = 0
            /\ local_err_txn' = NoErr /\ ret' = -1
            /\ h' = [h EXCEPT !.txns = @ + 1, !.failStep = "none", !.tlog = <<>>,
                              !.bufAtStart = bufData,
                              !.snap = <<>>, !.sizeSent = NoValue, !.payloadSent = <<>>,
                              !.txnAfterFail = @ \/ h.anyFail]
       ELSE /\ ppc' = "out"
            /\ UNCHANGED <<trans, transErr, local_err_txn, ret, h>>
    /\ UNCHANGED <<sState, fromDst, toDstErr, fromDstErr, buffer, bufData,
                   local_err_pri, size, vmRunning, pLock>>
    /\ UNCHANGED <<secVars, chanVars, cmdVars>>


\* observation of one operation on a channel by the primary
IoObs(hh) == [hh EXCEPT !.lockedIO = @ \/ pLock]

Logged(hh, op) == [hh EXCEPT !.tlog = Append(@, Ev(op))]

\* colo_put_cmd(s->to_dst_file, COLO_MESSAGE_CHECKPOINT_REQUEST); goto out on error
TxnRequest ==
    /\ ppc = "t_request"
    /\ \E fault \in BOOLEAN :
         LET f0 == File(chanToDst, toDstErr)
             r == colo_put_cmd(f0, COLO_MESSAGE_CHECKPOINT_REQUEST, fault)
             hh == Sent(IoObs(h), f0, r.f)
         IN /\ chanToDst' = r.f.data
            /\ toDstErr' = r.f.last_error
            /\ local_err_txn' = r.err
            /\ ppc' = IF r.err # NoErr THEN "t_out" ELSE "t_reply"
            /\ h' = IF r.err # NoErr THEN Fail(hh, "request")
                    ELSE [Logged(hh, "request") EXCEPT !.reqSent = @ + 1]
    /\ UNCHANGED <<sState, fromDst, fromDstErr, buffer, bufData, trans, transErr,
                   local_err_pri, ret, size, vmRunning, pLock>>
    /\ UNCHANGED <<secVars, chanToSrc, cmdVars>>

\* the three receive-and-match steps of the transaction have the same shape;
\* onErr is where control goes when local_err is set
TxnRecvTo(at, expect_cmd, step, next, onErr) ==
    /\ ppc = at
    /\ \E fault \in BOOLEAN :
         /\ RecvReady(chanToSrc, fromDstErr, fault, toSrc = "closed")
         /\ LET r == colo_get_check_cmd(File(chanToSrc, fromDstErr), expect_cmd, fault)
                hh == [IoObs(h) EXCEPT !.badUse = @ \/ fromDst # "open"]
            IN /\ chanToSrc' = r.f.data
               /\ fromDstErr' = r.f.last_error
               /\ local_err_txn' = r.err
               /\ ppc' = IF r.err # NoErr THEN onErr ELSE next
               /\ h' = IF r.err # NoErr THEN Fail(hh, step)
                       ELSE [Logged(hh, step) EXCEPT
                               !.loadedMatched =
                                   IF expect_cmd = COLO_MESSAGE_VMSTATE_LOADED
                                   THEN @ + 1 ELSE @]
    /\ UNCHANGED <<sState, fromDst, toDstErr, buffer, bufData, trans, transErr,
                   local_err_pri, ret, size, vmRunning, pLock>>
    /\ UNCHANGED <<secVars, chanToDst, cmdVars>>

\* if (local_err) goto out
TxnRecv(at, expect_cmd, step, next) == TxnRecvTo(at, expect_cmd, step, next, "t_out")

\* variant: the failure of the reply receive does not leave the transaction
TxnReply_NoGoto ==
    TxnRecvTo("t_reply", COLO_MESSAGE_CHECKPOINT_REPLY, "reply", "t_bufopen",
              "t_bufopen")

\* colo_get_check_cmd(from_dst_file, COLO_MESSAGE_CHECKPOINT_REPLY)
TxnReply ==
    TxnRecv("t_reply", COLO_MESSAGE_CHECKPOINT_REPLY, "reply", "t_bufopen")

\* qsb_set_length(buffer, 0); trans = qemu_bufopen("w", buffer)
\* variant: the buffer keeps its length from the cycle before
TxnBufOpen_NoTruncate ==
    /\ ppc = "t_bufopen"
    /\ bufData' = bufData
    /\ \E ok \in BOOLEAN :
         /\ trans' = IF ok THEN "open" ELSE "null"
         /\ ppc' = IF ok THEN "t_stop" ELSE "t_out"
         /\ LET hh == [Logged(h, "truncate") EXCEPT !.badUse = @ \/ buffer # "live"]
            IN h' = IF ok THEN Logged(hh, "bufopen") ELSE Fail(hh, "bufopen")
    /\ transErr' = 0
    /\ UNCHANGED <<sState, fromDst, toDstErr, fromDstErr, buffer, local_err_pri,
                   local_err_txn, ret, size, vmRunning, pLock>>
    /\ UNCHANGED <<secVars, chanVars, cmdVars>>

\* qsb_set_length(buffer, 0); trans = qemu_bufopen("w", buffer)
TxnBufOpen ==
    /\ ppc = "t_bufopen"
    /\ bufData' = qsb_set_length(bufData, 0)
    /\ \E ok \in BOOLEAN :
         /\ trans' = IF ok THEN "open" ELSE "null"
         /\ ppc' = IF ok THEN "t_stop" ELSE "t_out"
         /\ LET hh == [Logged(h, "truncate") EXCEPT !.badUse = @ \/ buffer # "live"]
            IN h' = IF ok THEN Logged(hh, "bufopen") ELSE Fail(hh, "bufopen")
    /\ transErr' = 0
    /\ UNCHANGED <<sState, fromDst, toDstErr, fromDstErr, buffer, local_err_pri,
                   local_err_txn, ret, size, vmRunning, pLock>>
    /\ UNCHANGED <<secVars, chanVars, cmdVars>>

\* variant: the guest is not stopped before the snapshot
TxnStop_NoStop ==
    /\ ppc = "t_stop"
    /\ ppc' = "t_save"
    /\ h' = Logged(h, "stop")
    /\ UNCHANGED <<sState, fromDst, toDstErr, fromDstErr, buffer, bufData, trans,
                   transErr, local_err_pri, local_err_txn, ret, size, pLock,
                   vmRunning>>
    /\ UNCHANGED <<secVars, chanVars, cmdVars>>

\* lock; vm_stop_force_state(RUN_STATE_COLO); unlock
TxnStop ==
    /\ ppc = "t_stop"
    /\ vmRunning' = FALSE
    /\ ppc' = "t_save"
    /\ h' = [Logged(h, "stop") EXCEPT !.lockedOps = @ \cup {"vm_stop"}]
    /\ UNCHANGED <<sState, fromDst, toDstErr, fromDstErr, buffer, bufData, trans,
                   transErr, local_err_pri, local_err_txn, ret, size, pLock>>
    /\ UNCHANGED <<secVars, chanVars, cmdVars>>

\* qemu_savevm_state_header/begin, lock, complete_precopy, unlock, qemu_fflush(trans):
\* the serializer writes blob at position 0 of the buffer; when it fails it has
\* written a proper prefix and left its error on trans, which nothing reads
TxnSave ==
    /\ ppc = "t_save"
    /\ \E blob \in Snapshots, ok \in BOOLEAN :
         LET written == IF ok THEN blob ELSE SubSeq(blob, 1, Len(blob) - 1)
         IN /\ bufData' = qsb_write_at(bufData, written, 0)
            /\ transErr' = IF ok THEN 0 ELSE -EIO
            /\ h' = [Logged(h, "save") EXCEPT
                       !.snap = written,
                       !.badUse = @ \/ buffer # "live" \/ trans # "open",
                       !.lockedOps = @ \cup {"savevm_complete"}]
    /\ ppc' = "t_send"
    /\ UNCHANGED <<sState, fromDst, toDstErr, fromDstErr, buffer, trans,
                   local_err_pri, local_err_txn, ret, size, vmRunning, pLock>>
    /\ UNCHANGED <<secVars, chanVars, cmdVars>>

\* colo_put_cmd(s->to_dst_file, COLO_MESSAGE_VMSTATE_SEND)
TxnSend ==
    /\ ppc = "t_send"
    /\ \E fault \in BOOLEAN :
         LET f0 == File(chanToDst, toDstErr)
             r == colo_put_cmd(f0, COLO_MESSAGE_VMSTATE_SEND, fault)
             hh == Sent(IoObs(h), f0, r.f)
         IN /\ chanToDst' = r.f.data
            /\ toDstErr' = r.f.last_error
            /\ local_err_txn' = r.err
            /\ ppc' = IF r.err # NoErr THEN "t_out" ELSE "t_size"
            /\ h' = IF r.err # NoErr THEN Fail(hh, "send") ELSE Logged(hh, "send")
    /\ UNCHANGED <<sState, fromDst, fromDstErr, buffer, bufData, trans, transErr,
                   local_err_pri, ret, size, vmRunning, pLock>>
    /\ UNCHANGED <<secVars, chanToSrc, cmdVars>>

\* size = qsb_get_length(buffer); colo_put_cmd_value(.., VMSTATE_SIZE, size),
\* up to the flush of the command: colo_put_cmd(f, cmd, &local_err) and the
\* return when it has set the error
TxnSize ==
    /\ ppc = "t_size"
    /\ size' = qsb_get_length(bufData)
    /\ \E fault \in BOOLEAN :
         LET f0 == File(chanToDst, toDstErr)
             r == colo_put_cmd(f0, COLO_MESSAGE_VMSTATE_SIZE, fault)
             hh == [Sent(IoObs(h), f0, r.f) EXCEPT !.badUse = @ \/ buffer # "live"]
         IN /\ chanToDst' = r.f.data
            /\ toDstErr' = r.f.last_error
            /\ local_err_txn' = r.err
            /\ ppc' = IF r.err # NoErr THEN "t_out" ELSE "t_size_value"
            /\ h' = IF r.err # NoErr THEN Fail(hh, "size") ELSE hh
    /\ UNCHANGED <<sState, fromDst, fromDstErr, buffer, bufData, trans, transErr,
                   local_err_pri, ret, vmRunning, pLock>>
    /\ UNCHANGED <<secVars, chanToSrc, cmdVars>>

\* colo_put_cmd_value after the command is flushed: qemu_put_be64(f, size);
\* qemu_fflush(f); if (local_err) goto out
TxnSizeValue ==
    /\ ppc = "t_size_value"
    /\ \E fault \in BOOLEAN :
         LET f0 == File(chanToDst, toDstErr)
             r == colo_put_value(f0, U64(size), fault)
             hh == Sent(IoObs(h), f0, r.f)
         IN /\ chanToDst' = r.f.data
            /\ toDstErr' = r.f.last_error
            /\ local_err_txn' = r.err
            /\ ppc' = IF r.err # NoErr THEN "t_out" ELSE "t_payload"
            /\ h' = IF r.err # NoErr THEN Fail(hh, "size")
                    ELSE [Logged(hh, "size") EXCEPT
                            !.sizeSent =
                                qemu_get_be64(File(Drop(r.f.data, Len(f0.data)), 0),
                                              FALSE).v]
    /\ UNCHANGED <<sState, fromDst, fromDstErr, buffer, bufData, trans, transErr,
                   local_err_pri, ret, size, vmRunning, pLock>>
    /\ UNCHANGED <<secVars, chanToSrc, cmdVars>>

\* qsb_put_buffer(to_dst_file, buffer, size); qemu_fflush;
\* ret = qemu_file_get_error(to_dst_file); if (ret < 0) goto out
TxnPayload ==
    /\ ppc = "t_payload"
    /\ \E fault \in BOOLEAN :
         LET f0 == File(chanToDst, toDstErr)
             f1 == qemu_put_buffer(f0, SubSeq(bufData, 1, size), fault)
             hh == [Sent(IoObs(h), f0, f1) EXCEPT !.badUse = @ \/ buffer # "live"]
         IN /\ chanToDst' = f1.data
            /\ toDstErr' = f1.last_error
            /\ ret' = qemu_file_get_error(f1)
            /\ ppc' = IF qemu_file_get_error(f1) < 0 THEN "t_out" ELSE "t_received"
            /\ h' = IF qemu_file_get_error(f1) < 0 THEN Fail(hh, "payload")
                    ELSE [Logged(hh, "payload") EXCEPT
                            !.payloadSent = Drop(f1.data, Len(f0.data))]
    /\ UNCHANGED <<sState, fromDst, fromDstErr, buffer, bufData, trans, transErr,
                   local_err_pri, local_err_txn, size, vmRunning, pLock>>
    /\ UNCHANGED <<secVars, chanToSrc, cmdVars>>

\* colo_get_check_cmd(from_dst_file, COLO_MESSAGE_VMSTATE_RECEIVED)
TxnRecvReceived ==
    TxnRecv("t_received", COLO_MESSAGE_VMSTATE_RECEIVED, "received", "t_loaded")

\* variant: the failure of the last acknowledgment falls through to the resume
TxnRecvLoaded_NoGoto ==
    TxnRecvTo("t_loaded", COLO_MESSAGE_VMSTATE_LOADED, "loaded", "t_resume",
              "t_resume")

\* colo_get_check_cmd(from_dst_file, COLO_MESSAGE_VMSTATE_LOADED)
TxnRecvLoaded ==
    TxnRecv("t_loaded", COLO_MESSAGE_VMSTATE_LOADED, "loaded", "t_resume")

\* ret = 0; lock; vm_start(); unlock
TxnResume ==
    /\ ppc = "t_resume"
    /\ ret' = 0
    /\ vmRunning' = TRUE
    /\ ppc' = "t_out"
    /\ h' = [Logged(h, "start") EXCEPT !.lockedOps = @ \cup {"vm_start"}]
    /\ UNCHANGED <<sState, fromDst, toDstErr, fromDstErr, buffer, bufData, trans,
                   transErr, local_err_pri, local_err_txn, size, pLock>>
    /\ UNCHANGED <<secVars, chanVars, cmdVars>>

\* out: error_report_err(local_err); qemu_fclose(trans); return ret
TxnOut ==
    /\ ppc = "t_out"
    /\ trans' = IF trans = "open" THEN "closed" ELSE trans
    /\ ppc' = "t_ret"
    /\ UNCHANGED <<sState, fromDst, toDstErr, fromDstErr, buffer, bufData,
                   transErr, local_err_pri, local_err_txn, ret, size, vmRunning,
                   pLock>>
    /\ UNCHANGED <<secVars, chanVars, h, cmdVars>>

\* ret = colo_do_checkpoint_transaction(s, buffer); if (ret < 0) goto out
PriTxnReturn ==
    /\ ppc = "t_ret"
    /\ ppc' = IF ret < 0 THEN "out" ELSE "loop"
    /\ UNCHANGED <<sState, fromDst, toDstErr, fromDstErr, buffer, bufData, trans,
                   transErr, local_err_pri, local_err_txn, ret, size, vmRunning,
                   pLock>>
    /\ UNCHANGED <<secVars, chanVars, h, cmdVars>>

\* out: error_report_err; migrate_set_state(&s->state, COLO, COMPLETED)
PriSetCompleted ==
    /\ ppc = "out"
    /\ sState' = migrate_set_state(sState, "COLO", "COMPLETED")
    /\ ppc' = "free"
    /\ UNCHANGED <<fromDst, toDstErr, fromDstErr, buffer, bufData, trans, transErr,
                   local_err_pri, local_err_txn, ret, size, vmRunning, pLock>>
    /\ UNCHANGED <<secVars, chanVars, h, cmdVars>>

\* qsb_free(buffer); buffer = NULL  (qsb_free(NULL) does nothing)
PriFreeBuffer ==
    /\ ppc = "free"
    /\ buffer' = IF buffer = "null" THEN "null" ELSE "freed"
    /\ h' = IF buffer = "null" THEN h
            ELSE [h EXCEPT !.bufFrees = @ + 1, !.badUse = @ \/ buffer # "live"]
    /\ ppc' = "close"
    /\ UNCHANGED <<sState, fromDst, toDstErr, fromDstErr, bufData, trans, transErr,
                   local_err_pri, local_err_txn, ret, size, vmRunning, pLock>>
    /\ UNCHANGED <<secVars, chanVars, cmdVars>>

\* if (s->rp_state.from_dst_file) qemu_fclose(s->rp_state.from_dst_file)
PriCloseRp ==
    /\ ppc = "close"
    /\ fromDst' = IF fromDst = "null" THEN "null" ELSE "closed"
    /\ h' = IF fromDst = "null" THEN h
            ELSE [h EXCEPT !.rpCloses = @ + 1, !.badUse = @ \/ fromDst # "open"]
    /\ ppc' = "relock"
    /\ UNCHANGED <<sState, toDstErr, fromDstErr, buffer, bufData, trans, transErr,
                   local_err_pri, local_err_txn, ret, size, vmRunning, pLock>>
    /\ UNCHANGED <<secVars, chanVars, cmdVars>>

\* migrate_start_colo_process: qemu_mutex_lock_iothread() after the phase
PriRelock ==
    /\ ppc = "relock"
    /\ pLock' = TRUE
    /\ ppc' = "done"
    /\ UNCHANGED <<sState, fromDst, toDstErr, fromDstErr, buffer, bufData, trans,
                   transErr, local_err_pri, local_err_txn, ret, size, vmRunning>>
    /\ UNCHANGED <<secVars, chanVars, h, cmdVars>>

\* another subsystem moves s->state out of COLO while the phase runs
PhaseEndPrimary ==
    /\ sState = "COLO"
    /\ sState' = "FAILED"
    /\ UNCHANGED <<ppc, fromDst, toDstErr, fromDstErr, buffer, bufData, trans,
                   transErr, local_err_pri, local_err_txn, ret, size, vmRunning,
                   pLock>>
    /\ UNCHANGED <<secVars, chanVars, h, cmdVars>>


(* ======================= secondary ======================= *)
\* migrate_set_state(&mis->state, ACTIVE, COLO)
SecStart ==
    /\ spc = "s_start"
    /\ misState' = migrate_set_state(misState, "ACTIVE", "COLO")
    /\ spc' = "s_open_rp"
    /\ UNCHANGED <<toSrc, fromSrcErr, toSrcErr, ramCache, local_err_sec, request>>
    /\ UNCHANGED <<priVars, chanVars, h, cmdVars>>

\* mis->to_src_file = qemu_file_get_return_path(mis->from_src_file)
SecOpenRp ==
    /\ spc = "s_open_rp"
    /\ \E ok \in BOOLEAN :
         /\ toSrc' = IF ok THEN "open" ELSE "null"
         /\ spc' = IF ok THEN "s_init_cache" ELSE "s_out"
         /\ h' = IF ok THEN [h EXCEPT !.secOpens = @ + 1] ELSE h
    /\ UNCHANGED <<misState, fromSrcErr, toSrcErr, ramCache, local_err_sec, request>>
    /\ UNCHANGED <<priVars, chanVars, cmdVars>>

\* variant: a failed cache initialisation falls through to the READY send
SecInitCache_NoGoto ==
    /\ spc = "s_init_cache"
    /\ \E ok \in BOOLEAN :
         /\ ramCache' = IF ok THEN "init" ELSE ramCache
         /\ spc' = "s_ready"
         /\ h' = IF ok THEN [h EXCEPT !.secInits = @ + 1] ELSE h
    /\ UNCHANGED <<misState, toSrc, fromSrcErr, toSrcErr, local_err_sec, request>>
    /\ UNCHANGED <<priVars, chanVars, cmdVars>>

\* qemu_file_set_blocking; ret = colo_init_ram_cache(); if (ret < 0) goto out
SecInitCache ==
    /\ spc = "s_init_cache"
    /\ \E ok \in BOOLEAN :
         /\ ramCache' = IF ok THEN "init" ELSE ramCache
         /\ spc' = IF ok THEN "s_ready" ELSE "s_out"
         /\ h' = IF ok THEN [h EXCEPT !.secInits = @ + 1] ELSE h
    /\ UNCHANGED <<misState, toSrc, fromSrcErr, toSrcErr, local_err_sec, request>>
    /\ UNCHANGED <<priVars, chanVars, cmdVars>>

\* the four sends of the responder have the same shape;
\* onErr is where control goes when local_err is set
SecPutTo(at, cmd, next, onErr) ==
    /\ spc = at
    /\ \E fault \in BOOLEAN :
         LET r == colo_put_cmd(File(chanToSrc, toSrcErr), cmd, fault)
         IN /\ chanToSrc' = r.f.data
            /\ toSrcErr' = r.f.last_error
            /\ local_err_sec' = r.err
            /\ spc' = IF r.err # NoErr THEN onErr ELSE next
            /\ h' = [h EXCEPT
                       !.secLog = IF r.err = NoErr THEN Append(@, cmd) ELSE @,
                       !.readySent = @ \/ (r.err = NoErr
                                            /\ cmd = COLO_MESSAGE_CHECKPOINT_READY)]
    /\ UNCHANGED <<misState, toSrc, fromSrcErr, ramCache, request>>
    /\ UNCHANGED <<priVars, chanToDst, cmdVars>>

\* if (local_err) goto out
SecPut(at, cmd, next) == SecPutTo(at, cmd, next, "s_out")

\* colo_put_cmd(mis->to_src_file, COLO_MESSAGE_CHECKPOINT_READY)
SecReady == SecPut("s_ready", COLO_MESSAGE_CHECKPOINT_READY, "s_loop")

\* while (mis->state == MIGRATION_STATUS_COLO) { int request; ...
SecLoop ==
    /\ spc = "s_loop"
    /\ spc' = IF misState = "COLO" THEN "s_wait" ELSE "s_out"
    /\ request' = IF misState = "COLO" THEN "unset" ELSE request
    /\ h' = IF misState = "COLO" THEN [h EXCEPT !.secIters = @ + 1] ELSE h
    /\ UNCHANGED <<misState, toSrc, fromSrcErr, toSrcErr, ramCache, local_err_sec>>
    /\ UNCHANGED <<priVars, chanVars, cmdVars>>

\* colo_wait_handle_cmd(mis->from_src_file, &request, &local_err);
\* if (local_err) goto out; assert(request)
SecWait ==
    /\ spc = "s_wait"
    /\ \E fault \in BOOLEAN :
         /\ RecvReady(chanToDst, fromSrcErr, fault, ppc = "idle")
         /\ LET r == colo_wait_handle_cmd(File(chanToDst, fromSrcErr), request, fault)
            IN /\ chanToDst' = r.f.data
               /\ fromSrcErr' = r.f.last_error
               /\ local_err_sec' = r.err
               /\ request' = r.request
               /\ spc' = IF r.err # NoErr THEN "s_out" ELSE "s_reply"
               /\ h' = [h EXCEPT
                          !.waitCmds = IF r.err.kind = "transport" THEN @
                                       ELSE Append(@, r.cmd),
                          !.assertFailed = @ \/ (r.err = NoErr /\ r.request # 1)]
    /\ UNCHANGED <<misState, toSrc, toSrcErr, ramCache>>
    /\ UNCHANGED <<priVars, chanToSrc, cmdVars>>

\* colo_put_cmd(mis->to_src_file, COLO_MESSAGE_CHECKPOINT_REPLY)
SecReply == SecPut("s_reply", COLO_MESSAGE_CHECKPOINT_REPLY, "s_vmsend")

\* colo_get_check_cmd(mis->from_src_file, COLO_MESSAGE_VMSTATE_SEND);
\* the payload is not read (TODO in the source)
SecRecvSend ==
    /\ spc = "s_vmsend"
    /\ \E fault \in BOOLEAN :
         /\ RecvReady(chanToDst, fromSrcErr, fault, ppc = "idle")
         /\ LET r == colo_get_check_cmd(File(chanToDst, fromSrcErr),
                                        COLO_MESSAGE_VMSTATE_SEND, fault)
            IN /\ chanToDst' = r.f.data
               /\ fromSrcErr' = r.f.last_error
               /\ local_err_sec' = r.err
               /\ spc' = IF r.err # NoErr THEN "s_out" ELSE "s_received"
    /\ UNCHANGED <<misState, toSrc, toSrcErr, ramCache, request>>
    /\ UNCHANGED <<priVars, chanToSrc, h, cmdVars>>

\* colo_put_cmd(mis->to_src_file, COLO_MESSAGE_VMSTATE_RECEIVED)
SecSendReceived == SecPut("s_received", COLO_MESSAGE_VMSTATE_RECEIVED, "s_loaded")

\* variant: a failed send of VMSTATE_LOADED returns without the teardown
SecSendLoaded_EarlyReturn ==
    SecPutTo("s_loaded", COLO_MESSAGE_VMSTATE_LOADED, "s_loop", "s_exit")

\* colo_put_cmd(mis->to_src_file, COLO_MESSAGE_VMSTATE_LOADED)
SecSendLoaded == SecPut("s_loaded", COLO_MESSAGE_VMSTATE_LOADED, "s_loop")

\* out: error_report_err; lock; colo_release_ram_cache(); unlock
SecRelease ==
    /\ spc = "s_out"
    /\ ramCache' = "released"
    /\ h' = [h EXCEPT !.secReleases = @ + 1,
                      !.secLog = Append(@, "release")]
    /\ spc' = "s_close"
    /\ UNCHANGED <<misState, toSrc, fromSrcErr, toSrcErr, local_err_sec, request>>
    /\ UNCHANGED <<priVars, chanVars, cmdVars>>

\* if (mis->to_src_file) qemu_fclose(mis->to_src_file)
SecClose ==
    /\ spc = "s_close"
    /\ toSrc' = IF toSrc = "null" THEN "null" ELSE "closed"
    /\ h' = IF toSrc = "null" THEN h
            ELSE [h EXCEPT !.secCloses = @ + 1, !.secLog = Append(@, "close")]
    /\ spc' = "s_exit"
    /\ UNCHANGED <<misState, fromSrcErr, toSrcErr, ramCache, local_err_sec, request>>
    /\ UNCHANGED <<priVars, chanVars, cmdVars>>

\* migration_incoming_exit_colo(); return NULL
SecExit ==
    /\ spc = "s_exit"
    /\ h' = [h EXCEPT !.secExits = @ + 1, !.secLog = Append(@, "exit")]
    /\ spc' = "s_done"
    /\ UNCHANGED <<misState, toSrc, fromSrcErr, toSrcErr, ramCache, local_err_sec,
                   request>>
    /\ UNCHANGED <<priVars, chanVars, cmdVars>>

\* another subsystem moves mis->state out of COLO while the phase runs
PhaseEndSecondary ==
    /\ misState = "COLO"
    /\ misState' = "FAILED"
    /\ UNCHANGED <<spc, toSrc, fromSrcErr, toSrcErr, ramCache, local_err_sec, request>>
    /\ UNCHANGED <<priVars, chanVars, h, cmdVars>>

Primary ==
    \/ PriStart \/ PriOpenRp \/ PriWaitReady \/ PriAlloc \/ PriFirstStart
    \/ PriLoop \/ TxnRequest \/ TxnReply \/ TxnBufOpen \/ TxnStop \/ TxnSave
    \/ TxnSend \/ TxnSize \/ TxnSizeValue \/ TxnPayload \/ TxnRecvReceived
    \/ TxnRecvLoaded
    \/ TxnResume \/ TxnOut \/ PriTxnReturn \/ PriSetCompleted \/ PriFreeBuffer
    \/ PriCloseRp \/ PriRelock

Secondary ==
    \/ SecStart \/ SecOpenRp \/ SecInitCache \/ SecReady \/ SecLoop \/ SecWait
    \/ SecReply \/ SecRecvSend \/ SecSendReceived \/ SecSendLoaded
    \/ SecRelease \/ SecClose \/ SecExit

Next == Primary \/ Secondary \/ PhaseEndPrimary \/ PhaseEndSecondary

Spec == Init /\ [][Next]_vars


(* ============ both sides with no fault ============ *)
\* no transport error, no failed open or allocation, no serializer error; a
\* receive fails only when the peer has closed and left less than a command
FaultFree ==
    /\ toDstErr' = 0 /\ toSrcErr' = 0 /\ fromSrcErr' = 0 /\ transErr' = 0
    /\ fromDstErr' = 0 \/ (toSrc = "closed" /\ Len(chanToSrc) < 4)
    /\ ~(ppc = "open_rp" /\ ppc' = "out")
    /\ ~(ppc = "alloc" /\ ppc' = "out")
    /\ ~(ppc = "t_bufopen" /\ ppc' = "t_out")
    /\ ~(spc = "s_open_rp" /\ spc' = "s_out")
    /\ ~(spc = "s_init_cache" /\ spc' = "s_out")

PrimaryLive == Primary /\ FaultFree

SecondaryLive == Secondary /\ FaultFree

\* the two threads over a reliable channel, no external change of phase state
NextLive == PrimaryLive \/ SecondaryLive

SpecLive == Init /\ [][NextLive]_vars /\ WF_vars(PrimaryLive) /\ WF_vars(SecondaryLive)


(* ============ primary against a scripted peer ============ *)
\* i-th command a protocol-conformant secondary sends on the return path
GoodCmd(i) ==
    IF i = 1 THEN COLO_MESSAGE_CHECKPOINT_READY
    ELSE IF (i - 2) % 3 = 0 THEN COLO_MESSAGE_CHECKPOINT_REPLY
    ELSE IF (i - 2) % 3 = 1 THEN COLO_MESSAGE_VMSTATE_RECEIVED
    ELSE COLO_MESSAGE_VMSTATE_LOADED

\* ordinals a peer may put on the wire: the valid ones and some invalid ones
RawOrdinals == 0..(COLO_MESSAGE__MAX + MaxExtraCmd - 1)

RECURSIVE Wire(_)
\* the bytes of a sequence of 32-bit ordinals
Wire(cmds) == IF cmds = <<>> THEN <<>>
              ELSE BeBytes(Head(cmds), 4) \o Wire(Tail(cmds))

\* what the return path holds: k conformant commands, then nothing or one
\* arbitrary ordinal, then end of stream
Scripts ==
    {Wire([i \in 1..k |-> GoodCmd(i)] \o tail) :
        k \in 0..MaxScript,
        tail \in {<<>>} \cup {<<c>> : c \in RawOrdinals}}

\* the primary at the entry of the phase; the peer has written its script on
\* the return path and closed its end
InitPrimary ==
    /\ priInit /\ cmdIdle
    /\ spc = "idle" /\ misState = "ACTIVE" /\ toSrc = "closed"
    /\ fromSrcErr = 0 /\ toSrcErr = 0 /\ ramCache = "none"
    /\ local_err_sec = NoErr /\ request = "unset"
    /\ chanToDst = <<>> /\ chanToSrc \in Scripts
    /\ h = H0

NextPrimary == Primary \/ PhaseEndPrimary

SpecPrimary == InitPrimary /\ [][NextPrimary]_vars


(* ============ secondary against a scripted peer ============ *)
\* i-th command the responder loop expects from the primary
GoodCmdPri(i) ==
    IF i % 2 = 1 THEN COLO_MESSAGE_CHECKPOINT_REQUEST
    ELSE COLO_MESSAGE_VMSTATE_SEND

\* the secondary at the entry of the phase; the peer has written k expected
\* commands, then nothing or one arbitrary ordinal, and closed its end
InitSecondary ==
    /\ secInit /\ priIdle /\ cmdIdle
    /\ chanToSrc = <<>>
    /\ \E k \in 0..MaxScript :
         \E tail \in {<<>>} \cup {<<c>> : c \in 0..(COLO_MESSAGE__MAX + MaxExtraCmd - 1)} :
            chanToDst = Wire([i \in 1..k |-> GoodCmdPri(i)] \o tail)
    /\ h = H0

NextSecondary == Secondary \/ PhaseEndSecondary

SpecSecondary == InitSecondary /\ [][NextSecondary]_vars

(* ============ command channel on its own ============ *)
\* 64-bit values offered to colo_put_cmd_value
CmdValues == {U64(0), U64(258), U64(16909060), [hi |-> 16909060, lo |-> 84281096]}

\* the file under test holds what a peer wrote before: nothing or one ordinal;
\* it may already be in error
InitCmd ==
    /\ priIdle /\ secIdle
    /\ chanToDst = <<>> /\ chanToSrc = <<>>
    /\ h = H0
    /\ cpc = "write"
    /\ cfile \in {File(d, e) : d \in {<<>>} \cup {BeBytes(v, 4) : v \in RawOrdinals},
                               e \in {0, -EIO}}
    /\ carg = [op |-> "none", cmd |-> 0, value |-> NoValue]
    /\ cres = [err |-> NoErr, cmd |-> -1, value |-> NoValue, sent |-> <<>>,
               before |-> cfile]

\* colo_put_cmd(f, cmd, errp)
CmdPut ==
    /\ cpc = "write"
    /\ \E cmd \in RawOrdinals, fault \in BOOLEAN :
         LET r == colo_put_cmd(cfile, cmd, fault)
         IN /\ cfile' = r.f
            /\ carg' = [op |-> "put", cmd |-> cmd, value |-> NoValue]
            /\ cres' = [err |-> r.err, cmd |-> -1, value |-> NoValue,
                        sent |-> Drop(r.f.data, Len(cfile.data)),
                        before |-> cfile]
    /\ cpc' = "read"
    /\ UNCHANGED <<priVars, secVars, chanVars, h>>

\* colo_put_cmd_value(f, cmd, value, errp)
CmdPutValue ==
    /\ cpc = "write"
    /\ \E cmd \in RawOrdinals, v \in CmdValues, fault1 \in BOOLEAN, fault2 \in BOOLEAN :
         LET r == colo_put_cmd_value(cfile, cmd, v, fault1, fault2)
         IN /\ cfile' = r.f
            /\ carg' = [op |-> "put_value", cmd |-> cmd, value |-> v]
            /\ cres' = [err |-> r.err, cmd |-> -1, value |-> NoValue,
                        sent |-> Drop(r.f.data, Len(cfile.data)),
                        before |-> cfile]
    /\ cpc' = "read"
    /\ UNCHANGED <<priVars, secVars, chanVars, h>>

\* nothing is written before the read
CmdNoWrite ==
    /\ cpc = "write"
    /\ cpc' = "read"
    /\ UNCHANGED <<cfile, carg, cres, priVars, secVars, chanVars, h>>

\* cmd = colo_get_cmd(f, errp)
CmdGet ==
    /\ cpc = "read"
    /\ \E fault \in BOOLEAN :
         LET r == colo_get_cmd(cfile, fault)
         IN /\ cfile' = r.f
            /\ carg' = [carg EXCEPT !.op = "get"]
            /\ cres' = [cres EXCEPT !.err = r.err, !.cmd = r.cmd]
    /\ cpc' = "value"
    /\ UNCHANGED <<priVars, secVars, chanVars, h>>

\* colo_get_check_cmd(f, expect_cmd, errp); carg.cmd becomes expect_cmd and
\* cres.cmd the ordinal that was on the wire
CmdGetCheck ==
    /\ cpc = "read"
    /\ \E expect_cmd \in 0..(COLO_MESSAGE__MAX - 1), fault \in BOOLEAN :
         LET r == colo_get_check_cmd(cfile, expect_cmd, fault)
         IN /\ cfile' = r.f
            /\ carg' = [carg EXCEPT !.op = "get_check", !.cmd = expect_cmd]
            /\ cres' = [cres EXCEPT !.err = r.err,
                          !.cmd = IF fault \/ cfile.last_error # 0
                                     \/ Len(cfile.data) < 4 THEN -1
                                  ELSE BeValue(SubSeq(cfile.data, 1, 4))]
    /\ cpc' = "done"
    /\ UNCHANGED <<priVars, secVars, chanVars, h>>

\* value = qemu_get_be64(f) after a colo_get_cmd
CmdGetValue ==
    /\ cpc = "value"
    /\ \E fault \in BOOLEAN :
         LET r == qemu_get_be64(cfile, fault)
         IN /\ cfile' = r.f
            /\ cres' = [cres EXCEPT !.value = IF r.f.last_error # 0 THEN NoValue ELSE r.v]
    /\ carg' = carg
    /\ cpc' = "done"
    /\ UNCHANGED <<priVars, secVars, chanVars, h>>

NextCmd == CmdPut \/ CmdPutValue \/ CmdNoWrite \/ CmdGet \/ CmdGetCheck \/ CmdGetValue

SpecCmd == InitCmd /\ [][NextCmd]_vars


(* ======================= properties ======================= *)
\* operations of the current transaction, in order
Ops == [i \in DOMAIN h.tlog |-> h.tlog[i].op]

Did(op) == \E i \in DOMAIN h.tlog : h.tlog[i].op = op

\* the transaction has left its body (label out reached or returned)
TxnOver == ppc \in {"t_out", "t_ret"}

\* steps of the transaction after the guest stop and before the resume
AfterStopSteps == {"send", "size", "payload", "received", "loaded"}

\* C1: when a step fails after the guest was stopped and before both
\* acknowledgments were matched, the transaction does not call vm_start and
\* the guest is stopped when the transaction returns.
C1_FailSafe ==
    (TxnOver /\ h.failStep \in AfterStopSteps)
        => (~vmRunning /\ Did("stop") /\ ~Did("start"))

\* a transaction has returned after VMSTATE_RECEIVED was answered by another
\* command, the guest being stopped
C1_Witness ==
    /\ ppc = "t_ret" /\ h.failStep = "received"
    /\ local_err_txn.kind = "mismatch"
    /\ Did("stop") /\ ~vmRunning

\* C2: the transaction returns 0 only when it has resumed the guest, and a
\* negative value whenever one of its steps failed.
C2_ReturnContract ==
    ppc = "t_ret" =>
        /\ (ret = 0 => (Did("start") /\ vmRunning))
        /\ (h.failStep # "none" => ret < 0)

\* positions of the primary once a failed transaction ended the phase
PhaseEnding == {"out", "free", "close", "relock", "done"}

\* C3: after a step of a transaction failed the loop starts no further
\* transaction, sends no further command and the phase state leaves COLO.
C3_FailureTerminal ==
    h.anyFail =>
        /\ ppc \in {"t_out", "t_ret"} \cup PhaseEnding
        /\ ~h.txnAfterFail
        /\ ~h.sentAfterFail
        /\ (ppc \in PhaseEnding \ {"out"} => sState # "COLO")

\* C4: a CHECKPOINT_REQUEST is sent only when VMSTATE_LOADED was matched for
\* every earlier request.
C4_StrictAlternation == h.reqSent <= h.loadedMatched + 1

NoTransportError ==
    toDstErr = 0 /\ fromDstErr = 0 /\ fromSrcErr = 0 /\ toSrcErr = 0

\* C5: without transport errors, every command the responder decodes at the
\* start of an iteration is CHECKPOINT_REQUEST.
C5_ResponderReadsRequest ==
    NoTransportError =>
        \A i \in DOMAIN h.waitCmds :
            h.waitCmds[i] = COLO_MESSAGE_CHECKPOINT_REQUEST

\* the operations of a cycle in which every step succeeded
FullCycle ==
    <<"request", "reply", "truncate", "bufopen", "stop", "save", "send", "size",
      "payload", "received", "loaded", "start">>

\* C6: the guest is stopped before the snapshot, is stopped at the snapshot,
\* at the three sends and at both acknowledgments, vm_start comes after
\* VMSTATE_RECEIVED and VMSTATE_LOADED in that order, and a cycle in which
\* every step succeeded stops and resumes the guest once each, in that order.
C6_FrozenWindow ==
    /\ \A i \in DOMAIN h.tlog :
         /\ h.tlog[i].op \in {"save"} \cup AfterStopSteps =>
               /\ ~h.tlog[i].run
               /\ \E j \in 1..(i - 1) : h.tlog[j].op = "stop"
         /\ h.tlog[i].op = "stop" => \A j \in 1..(i - 1) : h.tlog[j].op # "stop"
         /\ h.tlog[i].op = "start" =>
               /\ i >= 3
               /\ h.tlog[i - 2].op = "received"
               /\ h.tlog[i - 1].op = "loaded"
               /\ \A j \in 1..(i - 1) : h.tlog[j].op # "start"
    /\ ppc \in {"t_save", "t_send", "t_size", "t_size_value", "t_payload", "t_received",
                "t_loaded", "t_resume"} => ~vmRunning
    /\ (TxnOver /\ h.failStep = "none") => (Ops = FullCycle /\ vmRunning)

\* a second cycle has returned with every step done
C6_Witness ==
    /\ ppc = "t_ret" /\ h.failStep = "none" /\ h.txns = 2
    /\ Ops = FullCycle /\ vmRunning

\* C7 as stated: at every exit of the responder the RAM cache was released
\* exactly once and the return-path handle closed exactly once, before
\* migration_incoming_exit_colo.
C7_TeardownOnce ==
    /\ h.secExits <= 1
    /\ h.secExits = 1 => (h.secReleases = 1 /\ h.secCloses = 1)

\* C7 amended: at every exit of the responder the RAM cache was released
\* exactly once and the return-path handle was closed exactly once if it was
\* opened and not at all if opening it failed, both before
\* migration_incoming_exit_colo.
C7_TeardownOnceAmended ==
    /\ h.secExits <= 1 /\ h.secReleases <= 1 /\ h.secCloses <= h.secOpens
    /\ h.secOpens <= 1
    /\ h.secExits = 1 => (h.secReleases = 1 /\ h.secCloses = h.secOpens)
    /\ spc = "s_done" => h.secExits = 1
    /\ (toSrc = "closed") = (h.secCloses = 1)

\* the responder has exited in its second iteration, cache released and
\* handle closed
C7_Witness ==
    /\ spc = "s_done" /\ h.secIters = 2
    /\ h.secReleases = 1 /\ h.secCloses = 1 /\ h.secExits = 1

\* C8: the colo buffer is created at most once per phase and never in a
\* transaction, it is freed exactly once if it was created, the return path is
\* closed exactly once if it was opened, and neither is used when not live.
C8_ResourceLifecycle ==
    /\ h.bufCreates <= 1 /\ h.rpOpens <= 1
    /\ h.bufFrees <= h.bufCreates /\ h.rpCloses <= h.rpOpens
    /\ ~h.badUse
    /\ (buffer = "live") = (h.bufCreates = 1 /\ h.bufFrees = 0)
    /\ (fromDst = "open") = (h.rpOpens = 1 /\ h.rpCloses = 0)
    /\ h.txns >= 1 => h.bufCreates = 1
    /\ ppc \in {"relock", "done"} =>
          (h.bufFrees = h.bufCreates /\ h.rpCloses = h.rpOpens)

\* the phase has ended after three transactions, buffer freed and handle closed
C8_Witness ==
    /\ ppc = "done" /\ h.txns = 3
    /\ h.bufCreates = 1 /\ h.bufFrees = 1 /\ h.rpOpens = 1 /\ h.rpCloses = 1

\* C9: when the send of CHECKPOINT_REQUEST or the receive of CHECKPOINT_REPLY
\* fails, the transaction returns a negative value, has not stopped the guest,
\* has not truncated or written the colo buffer, has sent nothing after the
\* failure, and no other transaction follows.
C9_DroppedReply ==
    h.failStep \in {"request", "reply"} =>
        /\ ppc \in {"t_out", "t_ret"} \cup PhaseEnding
        /\ ret < 0
        /\ Ops = (IF h.failStep = "request" THEN <<>> ELSE <<"request">>)
        /\ bufData = h.bufAtStart
        /\ trans = "null"

\* a second transaction has returned after an invalid ordinal came in place of
\* CHECKPOINT_REPLY
C9_Witness ==
    /\ ppc = "t_ret" /\ h.failStep = "reply" /\ h.txns = 2
    /\ local_err_txn.kind = "invalid"
    /\ vmRunning /\ ret < 0

\* C10: colo_get_check_cmd(f, A) on a wire holding the valid command B # A
\* sets a mismatch error naming A as expected and B as the unexpected command,
\* and sets no error when the wire holds A.
C10_MismatchFields ==
    (cpc = "done" /\ carg.op = "get_check" /\ cres.cmd \in 0..(COLO_MESSAGE__MAX - 1))
        => IF cres.cmd = carg.cmd THEN cres.err = NoErr
           ELSE /\ cres.err.kind = "mismatch"
                /\ cres.err.expected = carg.cmd
                /\ cres.err.unexpected = cres.cmd


ValidCmds == 0..(COLO_MESSAGE__MAX - 1)

\* C11: colo_put_cmd (alone or through colo_put_cmd_value) with an ordinal
\* >= COLO_MESSAGE__MAX sets the invalid-command error and leaves the file as
\* it was (no byte written, last_error unchanged); a colo_get_cmd that decodes
\* an ordinal >= COLO_MESSAGE__MAX sets the invalid-command error.
C11_RangeRejection ==
    /\ (cpc = "read" /\ carg.op \in {"put", "put_value"}
            /\ carg.cmd >= COLO_MESSAGE__MAX)
          => (cres.err = InvalidErr /\ cfile = cres.before /\ cres.sent = <<>>)
    /\ (cpc \in {"value", "done"} /\ carg.op \in {"get", "get_check"}
            /\ cres.cmd >= COLO_MESSAGE__MAX)
          => cres.err = InvalidErr

\* colo_put_cmd was called with COLO_MESSAGE__MAX on a usable, empty file
\* and refused it
C11_Witness ==
    /\ cpc = "read" /\ carg.op = "put" /\ carg.cmd = COLO_MESSAGE__MAX
    /\ cres.before = File(<<>>, 0)
    /\ cres.err = InvalidErr /\ cfile = File(<<>>, 0)

\* the file was empty and usable before the write and no operation failed since
CleanChannel == cres.before = File(<<>>, 0) /\ cfile.last_error = 0

\* C12: on an empty error-free channel, colo_get_cmd after colo_put_cmd(c) or
\* colo_put_cmd_value(c, v) with a valid c returns c with no error, and the
\* 64-bit read that follows colo_put_cmd_value(c, v) and colo_get_cmd returns
\* v and leaves the channel empty.
C12_RoundTrip ==
    /\ (cpc \in {"value", "done"} /\ carg.op = "get" /\ CleanChannel
            /\ Len(cres.sent) >= 4 /\ cres.value = NoValue)
          => (cres.cmd = carg.cmd /\ cres.cmd \in ValidCmds /\ cres.err = NoErr
              /\ Len(cres.sent) = (IF carg.value = NoValue THEN 4 ELSE 12))
    /\ (cpc = "done" /\ carg.op = "get" /\ CleanChannel /\ carg.value # NoValue)
          => (cres.cmd = carg.cmd /\ cres.value = carg.value
              /\ cres.err = NoErr /\ cfile.data = <<>>)

\* VMSTATE_SIZE with a value whose high word is not zero has made the round trip
C12_Witness ==
    /\ cpc = "done" /\ carg.op = "get" /\ CleanChannel
    /\ carg.cmd = COLO_MESSAGE_VMSTATE_SIZE
    /\ carg.value = [hi |-> 16909060, lo |-> 84281096]
    /\ cres.cmd = carg.cmd /\ cres.value = carg.value


\* no command or payload went over the channel while the primary held the
\* iothread lock, and between the unlock at entry and the re-lock at exit the
\* lock is not held from one step to the next
NoLockAcrossIO == ~h.lockedIO /\ (pLock => ppc \in {"start", "done"})

\* C13 as stated: the lock is taken only for the guest stop call and the
\* guest resume call, and is never held during channel I/O.
C13_LockOnlyStopResume ==
    /\ h.lockedOps \subseteq {"vm_stop", "vm_start"}
    /\ NoLockAcrossIO

\* C13: the primary's checkpoint loop takes the iothread lock only for the
\* guest stop call, for qemu_savevm_state_complete_precopy and for the guest
\* start calls (before the loop and at the end of a cycle), and never holds it
\* while a command or payload is sent on, or a command is received from, the
\* channel.
C13_LockDiscipline ==
    /\ h.lockedOps \subseteq {"vm_stop", "savevm_complete", "vm_start"}
    /\ NoLockAcrossIO

\* a complete cycle has returned: all three locked calls were made, and every
\* send and receive of the cycle was observed
C13_Witness ==
    /\ ppc = "t_ret" /\ Ops = FullCycle /\ ~pLock
    /\ h.lockedOps = {"vm_stop", "savevm_complete", "vm_start"}
    /\ ~h.lockedIO

\* C14 as stated: once the serializer has left an error on the buffer file,
\* the transaction sends neither VMSTATE_SEND nor VMSTATE_SIZE nor the
\* payload, and returns failure.
C14_SnapshotFailureAborts ==
    (transErr # 0 /\ ppc \in {"t_send", "t_size", "t_size_value", "t_payload", "t_received",
                              "t_loaded", "t_resume", "t_out", "t_ret"})
       => /\ ~Did("send") /\ ~Did("size") /\ ~Did("payload")
          /\ ppc = "t_ret" => ret < 0

\* C15: the buffer is empty when the serializer starts writing; VMSTATE_SIZE
\* carries the length of this cycle's snapshot and the payload written after
\* it is exactly this cycle's snapshot.
C15_BufferReuse ==
    /\ ppc = "t_save" => bufData = <<>>
    /\ Did("save") => bufData = h.snap
    /\ Did("size") => h.sizeSent = U64(Len(h.snap))
    /\ Did("payload") => (h.payloadSent = h.snap
                          /\ U64(Len(h.payloadSent)) = h.sizeSent)

\* a later cycle whose snapshot is shorter than what the buffer held when the
\* cycle began has sent its size and payload
C15_Witness ==
    /\ Did("payload") /\ Len(h.bufAtStart) > Len(h.snap) /\ Len(h.snap) > 0
    /\ h.payloadSent = h.snap


\* C16 as stated, the part a finite run decides: with no fault and no
\* external change of phase state, no step of any cycle fails and neither
\* side has set an error.
C16_JointProgress ==
    /\ h.failStep = "none"
    /\ local_err_pri = NoErr /\ local_err_txn = NoErr /\ local_err_sec = NoErr

\* C17 as stated: colo_release_ram_cache is called only after
\* colo_init_ram_cache has succeeded in the same run.
C17_ReleaseAfterInit == h.secReleases > 0 => h.secInits > 0

\* C18: the responder loop never reaches assert(request) with request other
\* than 1: between colo_wait_handle_cmd and the end of the iteration request
\* is 1, whatever ordinal or error the wait has met.
C18_AssertHolds ==
    /\ ~h.assertFailed
    /\ spc \in {"s_reply", "s_vmsend", "s_received", "s_loaded"} => request = 1

\* one iteration has passed the assertion, and the wait of the next one has
\* met an invalid ordinal and left the loop with the error set
C18_Witness ==
    /\ Len(h.waitCmds) = 2
    /\ h.waitCmds[1] = COLO_MESSAGE_CHECKPOINT_REQUEST
    /\ h.waitCmds[2] >= COLO_MESSAGE__MAX
    /\ local_err_sec = InvalidErr /\ spc = "s_out" /\ ~h.assertFailed

\* the primary has received CHECKPOINT_READY and matched it
ReadyMatched ==
    /\ ppc \notin {"start", "open_rp", "wait_ready"}
    /\ h.rpOpens = 1 /\ local_err_pri = NoErr

\* C19: buffer allocation, guest start and every CHECKPOINT_REQUEST of the
\* primary come after it has matched CHECKPOINT_READY; the secondary sends
\* CHECKPOINT_READY only with its return path open and its RAM cache
\* initialised; a primary that has not matched CHECKPOINT_READY runs no
\* transaction and leaves the phase state COMPLETED (FAILED is the value the
\* external phase end writes, which migrate_set_state does not replace).
C19_ReadyHandshake ==
    /\ (h.bufCreates > 0 \/ vmRunning \/ h.reqSent > 0 \/ h.txns > 0
            \/ chanToDst # <<>>)
          => ReadyMatched
    /\ ReadyMatched => h.readySent
    /\ h.readySent => (h.secOpens = 1 /\ h.secInits = 1)
    /\ spc = "s_ready" => (toSrc = "open" /\ ramCache = "init")
    /\ (~ReadyMatched /\ ppc \in PhaseEnding) => h.txns = 0
    /\ (~ReadyMatched /\ ppc \in PhaseEnding \ {"out"})
          => sState \in {"COMPLETED", "FAILED"}

\* the handshake was completed and the first CHECKPOINT_REQUEST is out
C19_Witness ==
    /\ ReadyMatched /\ h.readySent /\ h.secOpens = 1 /\ h.secInits = 1
    /\ h.bufCreates = 1 /\ vmRunning /\ h.reqSent = 1

====
